---- MODULE Spec2Model ----
(***************************************************************************)
(* tinyDFPlayer v1.2 (ATtiny85 + DFPlayer mini): the firmware's setup(),   *)
(* its loop() and the functions they call, as a state machine.  The        *)
(* program position pc walks through setup and then round the main loop:   *)
(* poll -> volume -> buttons (-> release) -> battery (-> lockout) -> sleep.*)
(***************************************************************************)
EXTENDS Integers, Sequences, FiniteSets, TLC

\* ---------------------------------------------------------------- constants

BYTE == 256
WORD == 65536
NEXT == 552
OK == 712
PREV == 790
TOLERANCE == 20
IDLE == 1000
BRIGHT == 127
DIMM == 50
SENTINEL == 55
ERASED == BYTE - 1
HYST == 8
VOLDIV == 34
STARTVOLUME == 20
MAXFILES == 255
VREFSCALE == 1125300
VBATMIN == 3200
VBATMAX == 4100
VBATSTEP == 9
RECOVERED == 10
ADCMAX == 1023
RELOAD == 600

\* ------------------------------------------------------------------- bounds

\* folders on a small card, files in each of its folders
MaxFolders == 2
MaxFiles == 2
\* the reload value of batcounter where the model scales it down: RELOAD
\* iterations of the loop between two battery checks, times every input of
\* every iteration, is out of reach
BatPeriod == 3

\* ------------------------------------------------------ inputs of the model

\* raw ADC counts of the 1.1 V reference: 351 -> 0 %, 345 -> 6 %, 300 -> 61 %
BatRaw == {351, 345, 300}

\* button rail: the three buttons, a level between the windows, idle
RailBasic == {NEXT, OK, PREV, 900, 1023}
\* button rail: the edges of every window and of the idle level
RailEdges ==
  UNION {{c - TOLERANCE - 1, c - TOLERANCE, c - TOLERANCE + 1, c,
          c + TOLERANCE - 1, c + TOLERANCE, c + TOLERANCE + 1} : c \in {NEXT, OK, PREV}}
    \cup {0, IDLE - 1, IDLE, 1023}

\* denoised potentiometer samples
PotiBasic == {700, 1023}
PotiEdges == {3, 5, 12, 20, 29, 700}

\* an SD card: the number of files of each folder 1..Len(card). The small
\* cards: n folders, k files in the first and MaxFiles in the others
SmallCards ==
  {[f \in 1 .. n |-> IF f = 1 THEN k ELSE MaxFiles] : n \in 1 .. MaxFolders, k \in 1 .. MaxFiles}
FullCard == [f \in 1 .. 1 |-> MAXFILES]

\* what the player is exposed to: the card, the levels of the button rail when
\* the loop samples it (rail) and while it waits for the release (hold), the
\* levels of the potentiometer, and the reload value of batcounter the run is
\* checked with
Scenarios ==
  {[card |-> c, rail |-> RailBasic, hold |-> {900, 1023}, poti |-> PotiBasic,
    period |-> BatPeriod] : c \in SmallCards}
    \cup {[card |-> FullCard, rail |-> {NEXT, 1023}, hold |-> {NEXT, 1023}, poti |-> {700},
            period |-> BatPeriod]}
    \cup {[card |-> <<1>>, rail |-> RailEdges, hold |-> RailBasic, poti |-> {700},
            period |-> BatPeriod]}
    \cup {[card |-> <<1>>, rail |-> {OK, 1023}, hold |-> {1023}, poti |-> PotiEdges,
            period |-> BatPeriod]}

\* a run with the reload value of the code, 600, and few inputs
LongRun ==
  [card |-> <<1>>, rail |-> {OK, 1023}, hold |-> {1023}, poti |-> {700}, period |-> RELOAD]

\* EEPROM at power-on: erased, or the sentinel and the file (cell 1) and folder
\* (cell 2) an earlier run played last, the card maybe another one since
PersistedFiles == (1 .. (MaxFiles + 1)) \cup {MAXFILES - 1, MAXFILES}
PersistedFolders == 1 .. (MaxFolders + 1)
Eeproms ==
  {[a \in 0 .. 2 |-> ERASED]}
    \cup {[a \in 0 .. 2 |-> IF a = 0 THEN SENTINEL ELSE IF a = 1 THEN fi ELSE fo] :
            fi \in PersistedFiles, fo \in PersistedFolders}

\* ---------------------------------------------------------------- variables

VARIABLES
  pc,            \* program position
  ret,           \* where checkBatLevel returns to
  env,           \* the scenario: card and input levels
  eeprom,        \* EEPROM cells 0..2
  inbox,         \* message of the DFPlayer waiting on the serial line
  filecounts, foldercounts, batlevel, volume, folder, file, pause,
  batcounter, lastpoti,
  contrast,      \* OLED contrast
  frame,         \* frame shown on the OLED
  trace,         \* I/O of the last step: decoder commands, EEPROM, ADC, sleep
  entry,         \* arguments of the last step's call of startFolderPlay
  run,           \* the press of a button being waited out
  power,         \* which peripherals the power reduction register leaves powered
  cadence,       \* calls of checkBatLevel in setup, loop iterations since the last call
  lastplay,      \* the last play command sent since the player was first switched on
  lastvolume,    \* the last volume command sent to the decoder since it was powered
  steady         \* the potentiometer at rest: volume changes and commands since

vars == <<pc, ret, env, eeprom, inbox, filecounts, foldercounts, batlevel,
          volume, folder, file, pause, batcounter, lastpoti, contrast, frame,
          trace, entry, run, power, cadence, lastplay, lastvolume, steady>>

\* ------------------------------------------------------------ pure helpers

Op(op, a, b) == [op |-> op, a |-> a, b |-> b]

NoCall == [called |-> FALSE, folder |-> 0, file |-> 0, foldercounts |-> 0, filecounts |-> 0]
NoRun == [open |-> FALSE, last |-> 1023, events |-> <<>>]
\* no play command yet; cut: power was removed inside startFolderPlay
NoPlay == [folder |-> 0, file |-> 0, cut |-> FALSE]
NoCadence == [setup |-> 0, since |-> 0]
\* no volume command yet
NoVolume == [sent |-> FALSE, volume |-> 0]
\* the potentiometer still moving
Moving == [on |-> FALSE, changes |-> 0, commands |-> 0]

\* uint8_t x; x++
Inc8(x) == (x + 1) % BYTE
\* uint16_t arithmetic
Sub16(a, b) == (a - b + WORD) % WORD
Add16(a, b) == (a + b) % WORD

\* line 171 without the band: every sample that differs is taken over
PotiMoved_Always(getpoti, last) == getpoti # last

\* line 171: (getpoti < (lastpoti - 8)) || (getpoti > (lastpoti + 8))
PotiMoved(getpoti, last) == getpoti < Sub16(last, HYST) \/ getpoti > Add16(last, HYST)

\* line 172: uint8_t getvol = lastpoti / 34
VolumeOf(last) == (last \div VOLDIV) % BYTE

\* the window tests with the bounds included (<= for <)
InWindow_Inclusive(buttons, centre) ==
  buttons <= centre + TOLERANCE /\ buttons >= centre - TOLERANCE

\* lines 183, 190, 195: the window tests
InWindow(buttons, centre) == buttons < centre + TOLERANCE /\ buttons > centre - TOLERANCE
IsPrev(buttons) == InWindow(buttons, PREV)
IsNext(buttons) == InWindow(buttons, NEXT)
IsOk(buttons) == InWindow(buttons, OK)

\* line 184
NextFolder(fo, fcs) == IF fo < fcs THEN fo + 1 ELSE 1

\* lines 362-365
Constrain(x, lo, hi) == IF x < lo THEN lo ELSE IF x > hi THEN hi ELSE x

\* getBatLevel with line 362 computed in 16 bits (1125300 for 1125300L)
getBatLevel_Word(raw) ==
  ((Constrain((VREFSCALE % WORD) \div raw, VBATMIN, VBATMAX) - VBATMIN) \div VBATSTEP) % BYTE
getBatLevel(raw) == ((Constrain(VREFSCALE \div raw, VBATMIN, VBATMAX) - VBATMIN) \div VBATSTEP) % BYTE

\* the DFPlayer's answers
readFolderCounts == Len(env.card)
FileCountReplies(fo) == IF fo \in DOMAIN env.card THEN {env.card[fo]} ELSE {0, BYTE - 1}
\* the answer for folder 1, none on a card without folders
FolderOne == IF 1 \in DOMAIN env.card THEN env.card[1] ELSE 0

\* ------------------------------------------------- the program's state as a record

Cur ==
  [folder |-> folder, file |-> file, filecounts |-> filecounts,
   foldercounts |-> foldercounts, volume |-> volume, pause |-> pause,
   batlevel |-> batlevel, batcounter |-> batcounter, lastpoti |-> lastpoti,
   eeprom |-> eeprom, contrast |-> contrast, frame |-> frame,
   power |-> power, cadence |-> cadence, out |-> <<>>, entry |-> NoCall,
   events |-> <<>>]

\* the places of operation `name` in an I/O trace
OpsIn(t, name) == {i \in 1 .. Len(t) : t[i].op = name}

\* the last play command of a trace
LastPlayIn(t) == CHOOSE i \in OpsIn(t, "playFolder") : \A j \in OpsIn(t, "playFolder") : j <= i

\* the last play command sent, the I/O `out` following the play command lp
LastPlay(out, lp) ==
  IF OpsIn(out, "playFolder") = {}
    THEN lp
    ELSE [folder |-> out[LastPlayIn(out)].a, file |-> out[LastPlayIn(out)].b, cut |-> FALSE]

\* the last volume command sent, the I/O `out` following the command lv
LastVolume(out, lv) ==
  IF OpsIn(out, "volume") = {}
    THEN lv
    ELSE [sent |-> TRUE,
          volume |-> out[CHOOSE i \in OpsIn(out, "volume") :
                           \A j \in OpsIn(out, "volume") : j <= i].a]

\* the changes of volume and the volume commands counted while the
\* potentiometer is at rest: a step from volume `before` to `after` with I/O out
Counted(st, before, after, out) ==
  IF st.on
    THEN [st EXCEPT !.changes = @ + (IF after # before THEN 1 ELSE 0),
                    !.commands = @ + Cardinality(OpsIn(out, "volume"))]
    ELSE st

\* the globals take the values of s (v: s, evaluated once)
Commit(s) ==
  \E v \in {s} :
    /\ folder' = v.folder
    /\ file' = v.file
    /\ filecounts' = v.filecounts
    /\ foldercounts' = v.foldercounts
    /\ volume' = v.volume
    /\ pause' = v.pause
    /\ batlevel' = v.batlevel
    /\ batcounter' = v.batcounter
    /\ lastpoti' = v.lastpoti
    /\ eeprom' = v.eeprom
    /\ contrast' = v.contrast
    /\ frame' = v.frame
    /\ trace' = v.out
    /\ entry' = v.entry
    /\ power' = v.power
    /\ cadence' = v.cadence
    /\ lastplay' = LastPlay(v.out, lastplay)
    /\ lastvolume' = LastVolume(v.out, lastvolume)
    /\ steady' = Counted(steady, volume, v.volume, v.out)

Emit(s, e) == [s EXCEPT !.out = Append(@, e)]

\* avr/power.h on the power reduction register
AllOn == [adc |-> TRUE, timers |-> TRUE, serial |-> TRUE]
AllOff == [adc |-> FALSE, timers |-> FALSE, serial |-> FALSE]
power_all_disable(s) == [s EXCEPT !.power = AllOff]
power_all_enable(s) == [s EXCEPT !.power = AllOn]
power_adc_enable(s) == [s EXCEPT !.power.adc = TRUE]
power_adc_disable(s) == [s EXCEPT !.power.adc = FALSE]

\* lines 318-366: a conversion, the ADC powered for it and off again; e is the
\* reading
adcRead(s, e) == power_adc_disable(Emit(power_adc_enable(s), e))

\* sleep() without lines 383-384: nothing is powered again
sleep_StaysOff(s) == Emit(power_all_disable(s), Op("sleep", 0, 0))

\* lines 373-385
sleep(s) == power_adc_disable(power_all_enable(Emit(power_all_disable(s), Op("sleep", 0, 0))))

\* the status screen; lines 257-261: the volume is printed only when not paused
StatusFrame(s) ==
  [kind |-> "status", folder |-> s.folder, foldercounts |-> s.foldercounts,
   file |-> s.file, filecounts |-> s.filecounts, batlevel |-> s.batlevel,
   pause |-> s.pause, volume |-> IF s.pause THEN 0 ELSE s.volume]
TextFrame(kind) ==
  [kind |-> kind, folder |-> 0, foldercounts |-> 0, file |-> 0, filecounts |-> 0,
   batlevel |-> 0, pause |-> FALSE, volume |-> 0]

\* lines 240-263
updateOLED(s) == [s EXCEPT !.frame = StatusFrame(s)]

\* EEPROM.update(addr, val)
EepromUpdate(s, addr, val) == [Emit(s, Op("eeUpdate", addr, val)) EXCEPT !.eeprom[addr] = val]

\* filecounts = tinyPlayer.readFileCountsInFolder(folder), the player answering r
readFileCountsInFolder(s, r) ==
  [Emit(s, Op("readFileCounts", s.folder, r)) EXCEPT !.filecounts = r]

\* startFolderPlay without line 223, the wrap of file
startFolderPlay_NoFileWrap(s) ==
  LET e == [called |-> TRUE, folder |-> s.folder, file |-> s.file,
            foldercounts |-> s.foldercounts, filecounts |-> s.filecounts]
      s1 == IF s.folder > s.foldercounts
              THEN readFileCountsInFolder([s EXCEPT !.folder = 1, !.file = 1], FolderOne)
              ELSE s
      s3 == Emit(s1, Op("playFolder", s1.folder, s1.file))
      s4 == updateOLED([s3 EXCEPT !.pause = FALSE])
      s5 == EepromUpdate(s4, 1, s4.file)
      s6 == EepromUpdate(s5, 2, s5.folder)
  IN [s6 EXCEPT !.entry = e]

\* startFolderPlay persisting the pair it was called with, not the one it plays
startFolderPlay_PersistsEntry(s) ==
  LET e == [called |-> TRUE, folder |-> s.folder, file |-> s.file,
            foldercounts |-> s.foldercounts, filecounts |-> s.filecounts]
      s1 == IF s.folder > s.foldercounts
              THEN readFileCountsInFolder([s EXCEPT !.folder = 1, !.file = 1], FolderOne)
              ELSE s
      s2 == IF s1.file > s1.filecounts THEN [s1 EXCEPT !.file = 1] ELSE s1
      s3 == Emit(s2, Op("playFolder", s2.folder, s2.file))
      s4 == updateOLED([s3 EXCEPT !.pause = FALSE])
      s5 == EepromUpdate(s4, 1, s.file)
      s6 == EepromUpdate(s5, 2, s.folder)
  IN [s6 EXCEPT !.entry = e]

\* startFolderPlay with line 226 as pause = !pause
startFolderPlay_TogglesPause(s) ==
  LET e == [called |-> TRUE, folder |-> s.folder, file |-> s.file,
            foldercounts |-> s.foldercounts, filecounts |-> s.filecounts]
      s1 == IF s.folder > s.foldercounts
              THEN readFileCountsInFolder([s EXCEPT !.folder = 1, !.file = 1], FolderOne)
              ELSE s
      s2 == IF s1.file > s1.filecounts THEN [s1 EXCEPT !.file = 1] ELSE s1
      s3 == Emit(s2, Op("playFolder", s2.folder, s2.file))
      s4 == updateOLED([s3 EXCEPT !.pause = ~@])
      s5 == EepromUpdate(s4, 1, s4.file)
      s6 == EepromUpdate(s5, 2, s5.folder)
  IN [s6 EXCEPT !.entry = e]

\* lines 217-233
startFolderPlay(s) ==
  LET e == [called |-> TRUE, folder |-> s.folder, file |-> s.file,
            foldercounts |-> s.foldercounts, filecounts |-> s.filecounts]
      s1 == IF s.folder > s.foldercounts
              THEN readFileCountsInFolder([s EXCEPT !.folder = 1, !.file = 1], FolderOne)
              ELSE s
      s2 == IF s1.file > s1.filecounts THEN [s1 EXCEPT !.file = 1] ELSE s1
      s3 == Emit(s2, Op("playFolder", s2.folder, s2.file))
      s4 == updateOLED([s3 EXCEPT !.pause = FALSE])
      s5 == EepromUpdate(s4, 1, s4.file)
      s6 == EepromUpdate(s5, 2, s5.folder)
  IN [s6 EXCEPT !.entry = e]

\* lines 163-166
PlayFinished(s) == startFolderPlay([s EXCEPT !.file = Inc8(@)])

\* Previous without line 186, the reset of file
PrevPressed_KeepsFile(s) ==
  LET fo == NextFolder(s.folder, s.foldercounts)
      s1 == readFileCountsInFolder([s EXCEPT !.folder = fo], env.card[fo])
  IN startFolderPlay([s1 EXCEPT !.events = Append(@, "Previous")])

\* lines 183-188
PrevPressed(s) ==
  LET fo == NextFolder(s.folder, s.foldercounts)
      s1 == readFileCountsInFolder([s EXCEPT !.folder = fo], env.card[fo])
  IN startFolderPlay([s1 EXCEPT !.file = 1, !.events = Append(@, "Previous")])

\* lines 190-193
NextPressed(s) == startFolderPlay([s EXCEPT !.file = Inc8(@), !.events = Append(@, "Next")])

\* Ok with the two commands of lines 197-198 swapped
OkPressed_Swapped(s) ==
  LET s1 == [s EXCEPT !.pause = ~@, !.events = Append(@, "Ok")]
      s2 == Emit(s1, IF s1.pause THEN Op("start", 0, 0) ELSE Op("pause", 0, 0))
  IN updateOLED(s2)

\* lines 195-200
OkPressed(s) ==
  LET s1 == [s EXCEPT !.pause = ~@, !.events = Append(@, "Ok")]
      s2 == Emit(s1, IF s1.pause THEN Op("pause", 0, 0) ELSE Op("start", 0, 0))
  IN updateOLED(s2)

\* lines 183-200: the three tests in the order of the code
Dispatch(s, buttons) ==
  LET s1 == IF IsPrev(buttons) THEN PrevPressed(s) ELSE s
      s2 == IF IsNext(buttons) THEN NextPressed(s1) ELSE s1
  IN IF IsOk(buttons) THEN OkPressed(s2) ELSE s2

\* the test of line 294 with the threshold of line 303
Empty_BelowRecovered(lvl) == lvl < RECOVERED

\* line 294: if (batlevel == 0)
Empty(lvl) == lvl = 0

\* lines 309-310 without line 309: the level is not drawn
checkBatLevelEnd_NoRedraw(s) == [s EXCEPT !.batcounter = env.period]

\* lines 309-310
checkBatLevelEnd(s) == [updateOLED(s) EXCEPT !.batcounter = env.period]

\* lines 290-302 with the pause flag set where the decoder is paused
checkBatLevelBegin_SetsPause(s, raw) ==
  LET lvl == getBatLevel(raw)
      s1 == [adcRead(s, Op("getBatLevel", raw, lvl)) EXCEPT !.batlevel = lvl]
      s2 == [s1 EXCEPT !.contrast = DIMM, !.frame = TextFrame("empty")]
  IN IF Empty(lvl)
       THEN (IF ~s2.pause THEN [Emit(s2, Op("pause", 0, 0)) EXCEPT !.pause = TRUE] ELSE s2)
       ELSE checkBatLevelEnd(s1)

\* lines 290-302: sample; an empty battery dims, shows the notice and pauses
checkBatLevelBegin(s, raw) ==
  LET lvl == getBatLevel(raw)
      s1 == [adcRead(s, Op("getBatLevel", raw, lvl)) EXCEPT !.batlevel = lvl]
      s2 == [s1 EXCEPT !.contrast = DIMM, !.frame = TextFrame("empty")]
  IN IF Empty(lvl)
       THEN (IF ~s2.pause THEN Emit(s2, Op("pause", 0, 0)) ELSE s2)
       ELSE checkBatLevelEnd(s1)

\* ------------------------------------------------------------------ actions

\* lines 67-77: the globals at power-on, the EEPROM erased
Reset ==
  [folder |-> 1, file |-> 1, filecounts |-> 0, foldercounts |-> 0,
   volume |-> STARTVOLUME, pause |-> FALSE, batlevel |-> 0, batcounter |-> 0,
   lastpoti |-> 0, eeprom |-> [a \in 0 .. 2 |-> ERASED], contrast |-> 0,
   frame |-> TextFrame("blank"), power |-> AllOn, cadence |-> NoCadence,
   out |-> <<>>, entry |-> NoCall, events |-> <<>>]

\* the program stands at position `at` with state s, nothing under way
At(s, at) ==
  /\ pc = at
  /\ ret = "none"
  /\ eeprom = s.eeprom
  /\ inbox = "none"
  /\ filecounts = s.filecounts
  /\ foldercounts = s.foldercounts
  /\ batlevel = s.batlevel
  /\ volume = s.volume
  /\ folder = s.folder
  /\ file = s.file
  /\ pause = s.pause
  /\ batcounter = s.batcounter
  /\ lastpoti = s.lastpoti
  /\ contrast = s.contrast
  /\ frame = s.frame
  /\ trace = s.out
  /\ entry = s.entry
  /\ run = NoRun
  /\ power = s.power
  /\ cadence = s.cadence
  /\ lastplay = NoPlay
  /\ lastvolume = NoVolume
  /\ steady = Moving

Init ==
  /\ env \in Scenarios
  /\ \E ee \in Eeproms : At([Reset EXCEPT !.eeprom = ee], "boot")

\* checkBatLevel() called with state s, returning to `back`
CheckBatLevel(s, back) ==
  \E raw \in BatRaw :
    /\ Commit(checkBatLevelBegin(
                [s EXCEPT !.cadence = IF back = "setup"
                                       THEN [@ EXCEPT !.setup = @ + 1]
                                       ELSE [@ EXCEPT !.since = 0]], raw))
    /\ pc' = IF Empty(getBatLevel(raw)) THEN "lockout" ELSE back
    /\ ret' = IF Empty(getBatLevel(raw)) THEN back ELSE "none"

\* lines 88-136: start screen, handshake; on failure the error screen, else
\* the first battery check
SetupBegin ==
  /\ pc = "boot"
  /\ \E ok \in BOOLEAN :
       LET s0 == [power_adc_disable(Cur) EXCEPT !.contrast = BRIGHT, !.frame = TextFrame("start")]
           s1 == Emit(s0, Op("begin", 0, 0))
       IN IF ~ok
            THEN /\ Commit(Emit([s1 EXCEPT !.frame = TextFrame("error"), !.contrast = DIMM],
                                 Op("dfSleep", 0, 0)))
                 /\ pc' = "fatal"
                 /\ ret' = ret
            ELSE CheckBatLevel(s1, "setup")
  /\ UNCHANGED <<env, inbox, run>>

\* line 132 without its loop: one sleep, then setup goes on
FatalSleep_Once ==
  /\ pc = "fatal"
  /\ CheckBatLevel(sleep(Cur), "setup")
  /\ UNCHANGED <<env, inbox, run>>

\* line 132: while(true) sleep()
FatalSleep ==
  /\ pc = "fatal"
  /\ Commit(sleep(Cur))
  /\ UNCHANGED <<pc, ret, env, inbox, run>>

\* lines 303-306: the wait for recharging and the return from it
Lockout ==
  /\ pc = "lockout"
  /\ \E raw \in BatRaw :
       LET lvl == getBatLevel(raw)
           s1 == adcRead(Cur, Op("getBatLevel", raw, lvl))
       IN IF lvl < RECOVERED
            THEN /\ Commit(sleep(s1))
                 /\ UNCHANGED <<pc, ret>>
            ELSE \E raw2 \in BatRaw :
                   LET s2 == [adcRead(s1, Op("getBatLevel", raw2, getBatLevel(raw2)))
                                EXCEPT !.contrast = BRIGHT, !.batlevel = getBatLevel(raw2)]
                       s3 == IF ~s2.pause THEN Emit(s2, Op("start", 0, 0)) ELSE s2
                   IN /\ Commit(checkBatLevelEnd(s3))
                      /\ pc' = ret
                      /\ ret' = "none"
  /\ UNCHANGED <<env, inbox, run>>

\* lines 138-152
SetupFinish ==
  /\ pc = "setup"
  /\ \E r \in FileCountReplies(IF eeprom[0] = SENTINEL THEN eeprom[2] ELSE folder) :
       LET c0 == Emit(Cur, Op("eeRead", 0, eeprom[0]))
           s0 == IF eeprom[0] = SENTINEL
                   THEN [Emit(Emit(c0, Op("eeRead", 1, eeprom[1])), Op("eeRead", 2, eeprom[2]))
                           EXCEPT !.file = eeprom[1], !.folder = eeprom[2]]
                   ELSE [Emit(c0, Op("eeWrite", 0, SENTINEL)) EXCEPT !.eeprom[0] = SENTINEL]
           s1 == Emit(s0, Op("volume", s0.volume, 0))
           s2 == [Emit(s1, Op("readFolderCounts", readFolderCounts, 0))
                    EXCEPT !.foldercounts = readFolderCounts]
       IN Commit(startFolderPlay(readFileCountsInFolder(s2, r)))
  /\ pc' = "poll"
  /\ UNCHANGED <<ret, env, inbox, run>>

\* the DFPlayer puts a message on the serial line. The program looks at the
\* line only in PollDecoder, so a message that arrives anywhere between two
\* polls is one that arrives during the sleep or during a held button.
DecoderNotifies ==
  /\ pc \in {"release", "sleep"}
  /\ inbox = "none"
  /\ \E m \in {"PlayFinished", "Other"} : inbox' = m
  /\ UNCHANGED <<pc, ret, env, eeprom, filecounts, foldercounts, batlevel, volume,
                 folder, file, pause, batcounter, lastpoti, contrast, frame, trace,
                 entry, run, power, cadence, lastplay, lastvolume, steady>>

\* lines 159-167
PollDecoder ==
  /\ pc = "poll"
  /\ Commit(IF inbox = "PlayFinished" THEN PlayFinished(Cur) ELSE Cur)
  /\ inbox' = "none"
  /\ pc' = "volume"
  /\ UNCHANGED <<ret, env, run>>

\* lines 170-177 without line 175: the volume changed, the decoder not told
VolumeStep_NoCommand ==
  /\ pc = "volume"
  /\ \E getpoti \in env.poti :
       LET s0 == adcRead(Cur, Op("denoiseAnalog", getpoti, 0))
           s1 == IF PotiMoved(getpoti, s0.lastpoti) THEN [s0 EXCEPT !.lastpoti = getpoti] ELSE s0
           getvol == VolumeOf(s1.lastpoti)
       IN Commit(IF getvol # s1.volume THEN updateOLED([s1 EXCEPT !.volume = getvol]) ELSE s1)
  /\ pc' = "buttons"
  /\ UNCHANGED <<ret, env, inbox, run>>

\* lines 170-177
VolumeStep ==
  /\ pc = "volume"
  /\ \E getpoti \in env.poti :
       LET s0 == adcRead(Cur, Op("denoiseAnalog", getpoti, 0))
           s1 == IF PotiMoved(getpoti, s0.lastpoti) THEN [s0 EXCEPT !.lastpoti = getpoti] ELSE s0
           getvol == VolumeOf(s1.lastpoti)
       IN Commit(IF getvol # s1.volume
                   THEN updateOLED(Emit([s1 EXCEPT !.volume = getvol], Op("volume", getvol, 0)))
                   ELSE s1)
  /\ pc' = "buttons"
  /\ UNCHANGED <<ret, env, inbox, run>>

\* lines 180-200: one sample of the rail, the handlers of the window it is in
ButtonStep ==
  /\ pc = "buttons"
  /\ \E buttons \in env.rail :
       LET s0 == adcRead(Cur, Op("getAnalog", buttons, 180))
           s1 == IF buttons < IDLE THEN Dispatch(s0, buttons) ELSE s0
       IN /\ Commit(s1)
          /\ run' = IF buttons < IDLE
                      THEN [open |-> TRUE, last |-> buttons, events |-> s1.events]
                      ELSE NoRun
          /\ pc' = IF buttons < IDLE THEN "release" ELSE "battery"
  /\ UNCHANGED <<ret, env, inbox>>

\* line 202 with a sleep tick in the body of the loop
ReleaseWait_Sleeps ==
  /\ pc = "release"
  /\ \E buttons \in env.hold :
       /\ Commit(IF buttons < IDLE
                   THEN sleep(adcRead(Cur, Op("getAnalog", buttons, 202)))
                   ELSE adcRead(Cur, Op("getAnalog", buttons, 202)))
       /\ run' = IF buttons < IDLE THEN [run EXCEPT !.last = buttons] ELSE NoRun
       /\ pc' = IF buttons < IDLE THEN "release" ELSE "battery"
  /\ UNCHANGED <<ret, env, inbox>>

\* line 202: while(getAnalog(BUTTONS) < 1000);
ReleaseWait ==
  /\ pc = "release"
  /\ \E buttons \in env.hold :
       /\ Commit(adcRead(Cur, Op("getAnalog", buttons, 202)))
       /\ run' = IF buttons < IDLE THEN [run EXCEPT !.last = buttons] ELSE NoRun
       /\ pc' = IF buttons < IDLE THEN "release" ELSE "battery"
  /\ UNCHANGED <<ret, env, inbox>>

\* line 206 with the decrement behind the test: if ((batcounter--) == 0)
BatteryStep_PostDecrement ==
  /\ pc = "battery"
  /\ LET s0 == [Cur EXCEPT !.batcounter = Sub16(@, 1)]
     IN IF batcounter = 0
          THEN CheckBatLevel(s0, "sleep")
          ELSE Commit([s0 EXCEPT !.cadence.since = @ + 1]) /\ pc' = "sleep" /\ ret' = ret
  /\ UNCHANGED <<env, inbox, run>>

\* line 206: if ((--batcounter) == 0) checkBatLevel();
BatteryStep ==
  /\ pc = "battery"
  /\ LET s0 == [Cur EXCEPT !.batcounter = Sub16(@, 1)]
     IN IF s0.batcounter = 0
          THEN CheckBatLevel(s0, "sleep")
          ELSE Commit([s0 EXCEPT !.cadence.since = @ + 1]) /\ pc' = "sleep" /\ ret' = ret
  /\ UNCHANGED <<env, inbox, run>>

\* line 209 with the watchdog not armed: the sleep does not end
SleepTick_NoWatchdog ==
  /\ pc = "sleep"
  /\ Commit(Emit(power_all_disable(Cur), Op("sleep", 0, 0)))
  /\ UNCHANGED <<pc, ret, env, inbox, run>>

\* line 209: sleep(); loop() returns and is called again
SleepTick ==
  /\ pc = "sleep"
  /\ Commit(sleep(Cur))
  /\ pc' = "poll"
  /\ UNCHANGED <<ret, env, inbox, run>>

Next ==
  \/ SetupBegin
  \/ FatalSleep
  \/ Lockout
  \/ SetupFinish
  \/ DecoderNotifies
  \/ PollDecoder
  \/ VolumeStep
  \/ ButtonStep
  \/ ReleaseWait
  \/ BatteryStep
  \/ SleepTick

Spec == Init /\ [][Next]_vars

\* every conversion of the ADC and every watchdog tick completes, so the
\* program takes its next step; every pressed button is released in the end;
\* every lockout samples a level >= 10 in the end
Fairness ==
  /\ WF_vars(SetupBegin)
  /\ WF_vars(SetupFinish)
  /\ WF_vars(PollDecoder)
  /\ WF_vars(VolumeStep)
  /\ WF_vars(ButtonStep)
  /\ WF_vars(BatteryStep)
  /\ WF_vars(SleepTick)
  /\ WF_vars(ReleaseWait /\ pc' = "battery")
  /\ WF_vars(Lockout /\ pc' # "lockout")

\* the runs the progress of the loop is checked on: a card of one folder of two
\* files, Next and Ok pressed, held or not, the EEPROM erased
InitLive ==
  /\ env = [card |-> <<2>>, rail |-> {NEXT, OK, 1023}, hold |-> {900, 1023},
            poti |-> {700}, period |-> BatPeriod]
  /\ At(Reset, "boot")

SpecLive == InitLive /\ [][Next]_vars /\ Fairness

\* the program run with the reload value of the code
InitCadence ==
  /\ env = LongRun
  /\ \E ee \in Eeproms : At([Reset EXCEPT !.eeprom = ee], "boot")

SpecCadence == InitCadence /\ [][Next]_vars

\* ------------------------------------------------------------ the on/off switch

\* the positions of the main loop, start-up behind it
Started == pc \in {"poll", "volume", "buttons", "release", "battery", "sleep"}
             \/ (pc = "lockout" /\ ret = "sleep")

\* power off and on again: the globals are back at their initialisers (lines
\* 67-77), the decoder and the display are reset, the card and the inputs are
\* the same, the EEPROM holds ee
PowerOff(ee, lp) ==
  /\ pc' = "boot"
  /\ ret' = "none"
  /\ env' = env
  /\ eeprom' = ee
  /\ inbox' = "none"
  /\ filecounts' = 0
  /\ foldercounts' = 0
  /\ batlevel' = 0
  /\ volume' = STARTVOLUME
  /\ folder' = 1
  /\ file' = 1
  /\ pause' = FALSE
  /\ batcounter' = 0
  /\ lastpoti' = 0
  /\ contrast' = 0
  /\ frame' = TextFrame("blank")
  /\ trace' = <<>>
  /\ entry' = NoCall
  /\ run' = NoRun
  /\ power' = AllOn
  /\ cadence' = NoCadence
  /\ lastplay' = lp
  /\ lastvolume' = NoVolume
  /\ steady' = steady

\* the player is switched off between two steps of the running program
PowerCycle ==
  /\ Started
  /\ PowerOff(eeprom, lastplay)

\* the handlers that the next step of the main loop may run and that call
\* startFolderPlay
CallsAhead ==
  {s \in (IF pc = "poll" /\ inbox = "PlayFinished"
            THEN {PlayFinished(Cur)}
            ELSE IF pc = "buttons"
                   THEN {Dispatch(Cur, buttons) : buttons \in {b \in env.rail : b < IDLE}}
                   ELSE {}) : s.entry.called}

\* the player is switched off inside startFolderPlay, the play command of line
\* 225 sent: before line 230 has written the file, or between lines 230 and 231
PowerCut ==
  \E s \in CallsAhead :
    \E ee \in {eeprom, [eeprom EXCEPT ![1] = s.file]} :
      PowerOff(ee, [folder |-> s.folder, file |-> s.file, cut |-> TRUE])

NextPower ==
  \/ Next
  \/ PowerCycle
  \/ PowerCut

SpecPower == Init /\ [][NextPower]_vars

\* ------------------------------------------- startFolderPlay called twice

\* the values of a uint8_t the calls are tried with
ByteSamples == {0, 1, 2, 3, BYTE - 1}

\* startFolderPlay about to be called: any folder and file, the counts as read
\* from a card with no, one or two folders, or stale
InitTwice ==
  /\ env \in {[card |-> c, rail |-> {1023}, hold |-> {1023}, poti |-> {700},
                period |-> BatPeriod] : c \in {<<>>, <<2>>, <<1, 2>>}}
  /\ \E fo \in ByteSamples, fi \in ByteSamples, fcs \in ByteSamples \ {3}, p \in BOOLEAN :
       At([power_adc_disable(Reset) EXCEPT
             !.folder = fo, !.file = fi, !.foldercounts = readFolderCounts,
             !.filecounts = fcs, !.pause = p,
             !.eeprom = [a \in 0 .. 2 |-> IF a = 0 THEN SENTINEL ELSE 1]], "first")

CallStartFolderPlay ==
  /\ pc \in {"first", "second"}
  /\ Commit(startFolderPlay(Cur))
  /\ pc' = IF pc = "first" THEN "second" ELSE "twice"
  /\ UNCHANGED <<ret, env, inbox, run>>

SpecTwice == InitTwice /\ [][CallStartFolderPlay]_vars

\* -------------------------------------------------- getBatLevel on its own

\* getBatLevel() called on every reading the 10-bit ADC can give but 0
InitBattery ==
  /\ env = LongRun
  /\ At(power_adc_disable(Reset), "getBatLevel")

CallGetBatLevel ==
  /\ pc = "getBatLevel"
  /\ \E raw \in 1 .. ADCMAX :
       Commit([adcRead(Cur, Op("getBatLevel", raw, getBatLevel(raw)))
                 EXCEPT !.batlevel = getBatLevel(raw)])
  /\ pc' = "returned"
  /\ UNCHANGED <<ret, env, inbox, run>>

SpecBattery == InitBattery /\ [][CallGetBatLevel]_vars

\* ------------------------------------------ the potentiometer comes to rest

\* the samples of a potentiometer at rest: a band HYST wide from lo upwards
Band(lo) == {lo, lo + (HYST \div 2), lo + HYST}
\* the bands tried: in the range where line 171 wraps, across the step of the
\* volume from 0 to 1 at VOLDIV, below it, and far up
BandLows == {0, VOLDIV - HYST, VOLDIV - (HYST \div 2), 20 * VOLDIV + HYST}

\* from this iteration on the knob is left alone: every sample the loop takes
\* from now lies in one band
PotiSettles ==
  /\ pc = "volume"
  /\ ~steady.on
  /\ \E lo \in BandLows : env' = [env EXCEPT !.poti = Band(lo)]
  /\ steady' = [on |-> TRUE, changes |-> 0, commands |-> 0]
  /\ UNCHANGED <<pc, ret, eeprom, inbox, filecounts, foldercounts, batlevel, volume,
                 folder, file, pause, batcounter, lastpoti, contrast, frame, trace,
                 entry, run, power, cadence, lastplay, lastvolume>>

\* the knob turned over the samples of PotiEdges, then left alone
InitSteady ==
  /\ env = [card |-> <<1>>, rail |-> {OK, 1023}, hold |-> {1023}, poti |-> PotiEdges,
            period |-> BatPeriod]
  /\ At(Reset, "boot")

NextSteady ==
  \/ Next
  \/ PotiSettles

SpecSteady == InitSteady /\ [][NextSteady]_vars

\* ---------------------------------------------------------- reading a state

\* the trace holds one play command, and it is for (fo, fi)
PlaysOnce(t, fo, fi) ==
  /\ Cardinality(OpsIn(t, "playFolder")) = 1
  /\ \A i \in OpsIn(t, "playFolder") : t[i] = Op("playFolder", fo, fi)

\* ------------------------------------------------------------------ claims

\* C1: after start-up the session is in range wherever the main loop stands:
\* 1 <= folder <= foldercounts and 1 <= file <= filecounts.
C1_SessionInRange ==
  Started => /\ 1 <= folder /\ folder <= foldercounts
             /\ 1 <= file /\ file <= filecounts

\* C2: startFolderPlay normalises: a folder beyond foldercounts gives folder 1,
\* file 1 and the file count of folder 1 re-read; else a file beyond filecounts
\* gives file 1 in the same folder; else nothing changes; one play command is
\* sent, for the resulting (folder, file).
C2_Normalises ==
  entry.called =>
    /\ IF entry.folder > entry.foldercounts
         THEN /\ folder = 1 /\ file = 1
              /\ filecounts = env.card[1]
              /\ \E i \in OpsIn(trace, "readFileCounts") :
                   /\ trace[i] = Op("readFileCounts", 1, filecounts)
                   /\ \A j \in OpsIn(trace, "playFolder") : i < j
         ELSE IF entry.file > entry.filecounts
                THEN file = 1 /\ folder = entry.folder /\ filecounts = entry.filecounts
                ELSE file = entry.file /\ folder = entry.folder /\ filecounts = entry.filecounts
    /\ PlaysOnce(trace, folder, file)

\* C2 witness: start-up with a persisted folder the card does not have and a
\* persisted file other than 1 has been normalised to (1, 1).
C2_Witness ==
  /\ entry.called /\ entry.folder > entry.foldercounts /\ entry.file > 1
  /\ folder = 1 /\ file = 1 /\ pc = "poll"

\* C2 second case reached as well: a file beyond filecounts wrapped to 1 in
\* folder 2.
C2_WitnessFile ==
  /\ entry.called /\ entry.folder <= entry.foldercounts /\ entry.file > entry.filecounts
  /\ folder = 2 /\ file = 1

\* the step that handles a press of Previous, of Next, of Ok, a finished track
PreviousStep == pc = "buttons" /\ run'.events = <<"Previous">>
NextStep == pc = "buttons" /\ run'.events = <<"Next">>
OkStep == pc = "buttons" /\ run'.events = <<"Ok">>
FinishedStep == pc = "poll" /\ inbox = "PlayFinished" /\ pc' = "volume"

\* C3: a press of Previous handled with 1 <= folder <= foldercounts moves to
\* the next folder, to folder 1 from the last one, sets file to 1, re-reads the
\* file count of the new folder before the play command, plays (new folder, 1)
\* and leaves the session playing.
C3_Previous ==
  [][(PreviousStep /\ 1 <= folder /\ folder <= foldercounts) =>
       /\ folder' = IF folder < foldercounts THEN folder + 1 ELSE 1
       /\ file' = 1
       /\ filecounts' = env.card[folder']
       /\ \E i \in OpsIn(trace', "readFileCounts") :
            /\ trace'[i] = Op("readFileCounts", folder', filecounts')
            /\ \A j \in OpsIn(trace', "playFolder") : i < j
       /\ PlaysOnce(trace', folder', 1)
       /\ pause' = FALSE]_vars

\* C3 witness: Previous pressed in the last of two folders has wrapped to
\* folder 1, file 1, playing, the file count that of folder 1.
C3_Witness ==
  /\ pc = "release" /\ run.events = <<"Previous">>
  /\ entry.called /\ entry.folder = 1 /\ foldercounts = 2
  /\ folder = 1 /\ file = 1 /\ ~pause
  /\ frame.kind = "status" /\ filecounts = env.card[1]

\* C4: a finished track and a press of Next, handled with folder and file in
\* range, both keep folder and filecounts, step file to file + 1, to 1 from the
\* last file, send one play command for the result and clear the pause flag.
C4_NextAdvances ==
  [][((NextStep \/ FinishedStep)
        /\ 1 <= folder /\ folder <= foldercounts /\ 1 <= file /\ file <= filecounts) =>
       /\ folder' = folder
       /\ filecounts' = filecounts
       /\ file' = IF file < filecounts THEN file + 1 ELSE 1
       /\ PlaysOnce(trace', folder', file')
       /\ pause' = FALSE]_vars

\* C5: a press of Ok toggles the pause flag and sends the decoder one command,
\* pause when now paused and resume when now playing; folder, file, volume, the
\* counts and the EEPROM stay as they are and nothing is played.
C5_OkToggles ==
  [][OkStep =>
       /\ pause' = ~pause
       /\ Len(trace') = 2
       /\ trace'[1].op = "getAnalog"
       /\ trace'[2] = IF pause' THEN Op("pause", 0, 0) ELSE Op("start", 0, 0)
       /\ UNCHANGED <<folder, file, volume, filecounts, foldercounts, eeprom>>]_vars

\* C5 witness: Ok pressed while paused has resumed the player.
C5_Witness ==
  /\ pc = "release" /\ run.events = <<"Ok">>
  /\ ~pause /\ Len(trace) = 2 /\ trace[2] = Op("start", 0, 0)
  /\ frame.kind = "status" /\ ~frame.pause

\* the rail levels for which the code's window test of a button holds
Window(centre) == (centre - TOLERANCE + 1) .. (centre + TOLERANCE - 1)
\* the windows as the specification gives them
ClosedWindow(centre) == (centre - TOLERANCE) .. (centre + TOLERANCE)

\* the state ButtonStep leaves: its sample heads the trace
Sampled == Len(trace) >= 1 /\ trace[1].op = "getAnalog" /\ trace[1].b = 180

\* at most one handler is dispatched: that of the window the sample is in
Classified(prevs, oks, nexts) ==
  Sampled =>
    /\ Len(run.events) <= 1
    /\ (run.events = <<"Previous">>) <=> (trace[1].a \in prevs)
    /\ (run.events = <<"Ok">>) <=> (trace[1].a \in oks)
    /\ (run.events = <<"Next">>) <=> (trace[1].a \in nexts)

\* C6 as claimed: at most one handler per iteration, Previous exactly for a
\* sample in [770,810], Ok for [692,732], Next for [532,572], else none.
C6_ClosedWindows == Classified(ClosedWindow(PREV), ClosedWindow(OK), ClosedWindow(NEXT))

\* C6 amended: the same with the windows the code tests, [771,809], [693,731]
\* and [533,571].
C6_OpenWindows == Classified(Window(PREV), Window(OK), Window(NEXT))

\* C6 witness: the highest level of the Previous window, 809, has dispatched
\* Previous.
C6_Witness ==
  /\ Sampled /\ trace[1].a = PREV + TOLERANCE - 1
  /\ run.events = <<"Previous">> /\ pc = "release"

\* C7: when a press ends (the rail sampled back at idle), the run of samples
\* below idle that ended inside a button's window has raised one event, that
\* button's.
C7_OneEventPerPress ==
  [][(pc = "release" /\ pc' = "battery") =>
       /\ run.last \in Window(PREV) => run.events = <<"Previous">>
       /\ run.last \in Window(OK) => run.events = <<"Ok">>
       /\ run.last \in Window(NEXT) => run.events = <<"Next">>]_vars

Abs(x) == IF x < 0 THEN -x ELSE x

\* C8: the volume step replaces the tracked value T by the sample S exactly when
\* |S - T| > 8 and else keeps T; the volume is then floor(tracked value / 34).
C8_Hysteresis ==
  [][(pc = "volume" /\ pc' = "buttons") =>
       /\ lastpoti' = IF Abs(trace'[1].a - lastpoti) > HYST THEN trace'[1].a ELSE lastpoti
       /\ volume' = lastpoti' \div VOLDIV]_vars

\* the level the first battery sample of a trace gave
FirstLevel(t) ==
  t[CHOOSE i \in OpsIn(t, "getBatLevel") : \A j \in OpsIn(t, "getBatLevel") : i <= j].b

\* the operations of a trace
OpNames(t) == {t[i].op : i \in 1 .. Len(t)}

\* a step in which checkBatLevel is called and takes its sample
CheckStep == pc # "lockout" /\ OpsIn(trace', "getBatLevel") # {}

\* C9: checkBatLevel enters the lockout exactly when its sample is 0; entering,
\* it dims the display and sends pause iff the session is not paused; in the
\* lockout a sample below 10 is followed by a sleep and nothing else; the first
\* sample >= 10 leaves the lockout, restores the contrast and sends resume iff
\* the session is not paused.
C9_Lockout ==
  [][/\ CheckStep =>
          /\ (pc' = "lockout") <=> (FirstLevel(trace') = 0)
          /\ pc' = "lockout" =>
               /\ contrast' = DIMM /\ frame'.kind = "empty"
               /\ (OpsIn(trace', "pause") # {}) <=> ~pause
               /\ OpNames(trace') \subseteq {"begin", "getBatLevel", "pause"}
               /\ pause' = pause
     /\ (pc = "lockout" /\ FirstLevel(trace') < RECOVERED) =>
          /\ pc' = "lockout"
          /\ Len(trace') = 2 /\ trace'[1].op = "getBatLevel" /\ trace'[2] = Op("sleep", 0, 0)
          /\ UNCHANGED <<ret, env, eeprom, inbox, filecounts, foldercounts, batlevel,
                         volume, folder, file, pause, batcounter, lastpoti, contrast,
                         frame, run>>
     /\ (pc = "lockout" /\ FirstLevel(trace') >= RECOVERED) =>
          /\ pc' = ret /\ pc' # "lockout"
          /\ contrast' = BRIGHT
          /\ (OpsIn(trace', "start") # {}) <=> ~pause
          /\ OpNames(trace') \subseteq {"getBatLevel", "start"}
          /\ pause' = pause]_vars

\* C9 witness: a lockout entered in the main loop while playing has ended on a
\* sample >= 10 with the contrast restored and resume sent.
C9_Witness ==
  /\ pc = "sleep" /\ contrast = BRIGHT /\ ~pause
  /\ Len(trace) = 3 /\ trace[1].op = "getBatLevel" /\ trace[1].b >= RECOVERED
  /\ trace[3] = Op("start", 0, 0)

\* C9 second case: a lockout entered while paused has ended with no resume.
C9_WitnessPaused ==
  /\ pc = "sleep" /\ contrast = BRIGHT /\ pause
  /\ Len(trace) = 2 /\ trace[1].op = "getBatLevel" /\ trace[2].op = "getBatLevel"

\* C10: a failed handshake is terminal: the error screen is shown, the decoder
\* is sent its sleep command, and from then on there are only sleep ticks: no
\* play, volume, pause or resume command, no EEPROM access, no sample of an
\* input or of the battery, no step into the main loop.
C10_FatalIsTerminal ==
  /\ [](pc = "fatal" =>
          /\ frame.kind = "error" /\ contrast = DIMM
          /\ trace \in {<<Op("begin", 0, 0), Op("dfSleep", 0, 0)>>, <<Op("sleep", 0, 0)>>}
          /\ eeprom \in Eeproms
          /\ foldercounts = 0 /\ batcounter = 0)
  /\ [][/\ pc' = "fatal" => pc \in {"boot", "fatal"}
        /\ pc = "fatal" =>
             /\ pc' = "fatal"
             /\ trace' = <<Op("sleep", 0, 0)>>
             /\ UNCHANGED <<ret, env, eeprom, inbox, filecounts, foldercounts, batlevel,
                            volume, folder, file, pause, batcounter, lastpoti, contrast,
                            frame, entry, run>>]_vars

\* C10 witness: after a failed handshake the system has taken a sleep tick
\* under the error screen.
C10_Witness ==
  /\ pc = "fatal" /\ trace = <<Op("sleep", 0, 0)>>
  /\ frame.kind = "error" /\ contrast = DIMM

\* C11: every track change is persisted: a step that sends a play command for
\* (folder, file) ends, the EEPROM updates behind the command, with cell 1
\* holding file and cell 2 folder; so wherever the main loop stands the persisted
\* pair is the session's (file, folder).
C11_Persisted ==
  /\ [](Started => eeprom[1] = file /\ eeprom[2] = folder)
  /\ [][(Started' /\ trace' # trace /\ OpsIn(trace', "playFolder") # {}) =>
          LET i == LastPlayIn(trace')
          IN /\ eeprom'[1] = trace'[i].b /\ eeprom'[2] = trace'[i].a
             /\ \E j, k \in OpsIn(trace', "eeUpdate") :
                  /\ i < j /\ j < k
                  /\ trace'[j] = Op("eeUpdate", 1, trace'[i].b)
                  /\ trace'[k] = Op("eeUpdate", 2, trace'[i].a)]_vars

\* C11 witness: Next pressed at file 1 of a two-file folder has played (1, 2)
\* and the EEPROM holds file 2, folder 1.
C11_Witness ==
  /\ pc = "release" /\ run.events = <<"Next">>
  /\ PlaysOnce(trace, 1, 2) /\ file = 2 /\ folder = 1
  /\ eeprom[1] = 2 /\ eeprom[2] = 1

\* the step that ends start-up: setup() reads the EEPROM and starts to play
StartUpStep == pc = "setup" /\ pc' = "poll"

\* the first play command of the trace is for (fo, fi)
PlaysFirst(t, fo, fi) ==
  /\ OpsIn(t, "playFolder") # {}
  /\ \A i \in OpsIn(t, "playFolder") :
       (\A j \in OpsIn(t, "playFolder") : i <= j) => t[i] = Op("playFolder", fo, fi)

\* C12: the player remembers the last track across power-off: with the power
\* removed at any moment after start-up, the first play command of the next
\* start-up is for the (folder, file) of the last play command before; with no
\* sentinel in the EEPROM the first play command is for (1, 1) and the sentinel
\* is written.
C12_Remembers ==
  [][StartUpStep =>
       /\ lastplay # NoPlay => PlaysFirst(trace', lastplay.folder, lastplay.file)
       /\ eeprom[0] # SENTINEL =>
            /\ PlaysFirst(trace', 1, 1)
            /\ eeprom'[0] = SENTINEL]_vars

\* C12 with the power removed between two steps only, never inside
\* startFolderPlay: this much holds.
C12_RemembersBetweenSteps ==
  [][StartUpStep =>
       /\ (lastplay # NoPlay /\ ~lastplay.cut) =>
            PlaysFirst(trace', lastplay.folder, lastplay.file)
       /\ eeprom[0] # SENTINEL =>
            /\ PlaysFirst(trace', 1, 1)
            /\ eeprom'[0] = SENTINEL]_vars

\* a start-up after the power was removed between two steps has played file 2
\* of folder 2 again
C12_ReachedBetweenSteps ==
  /\ pc = "poll" /\ entry.called /\ OpsIn(trace, "eeRead") # {}
  /\ lastplay = [folder |-> 2, file |-> 2, cut |-> FALSE]
  /\ PlaysOnce(trace, 2, 2)

\* control has just returned from sleep(): it is the last thing the step did
ReturnedFromSleep == trace # <<>> /\ trace[Len(trace)].op = "sleep"

\* C13 as claimed: on return from sleep() the serial interface, the timers and
\* the ADC are all powered off.
C13_SleepLeavesAllOff == ReturnedFromSleep => power = AllOff

\* C13 amended: on return from sleep() the ADC is powered off, the serial
\* interface and the timers are powered on.
C13_SleepLeavesAdcOff ==
  ReturnedFromSleep => ~power.adc /\ power.timers /\ power.serial

\* C13 witness: the sleep tick that ends an iteration of the main loop has
\* returned, the ADC off, the rest powered.
C13_Witness ==
  /\ pc = "poll" /\ trace = <<Op("sleep", 0, 0)>>
  /\ power = [adc |-> FALSE, timers |-> TRUE, serial |-> TRUE]

\* x clamped to lo .. hi
Clamp(x, lo, hi) == IF x <= lo THEN lo ELSE IF x >= hi THEN hi ELSE x

\* C14: for every raw count R in 1 .. 1023 getBatLevel returns
\* floor((clamp(floor(1125300 / R), 3200, 4100) - 3200) / 9); the result is in
\* 0 .. 100, 0 when the clamped voltage is 3200 mV and 100 when it is 4100 mV.
C14_BatteryMapping ==
  pc = "returned" =>
    LET R == trace[1].a
        mV == Clamp(VREFSCALE \div R, VBATMIN, VBATMAX)
    IN /\ R \in 1 .. ADCMAX
       /\ trace[1].b = (mV - VBATMIN) \div VBATSTEP
       /\ batlevel = trace[1].b
       /\ batlevel \in 0 .. 100
       /\ mV = VBATMIN => batlevel = 0
       /\ mV = VBATMAX => batlevel = 100

\* C14 witness: the count 1023, 1100 mV, below the clamp, has given 0 %.
C14_Witness ==
  /\ pc = "returned" /\ trace = <<Op("getBatLevel", ADCMAX, 0)>> /\ batlevel = 0

\* C14 second witness: the count 200, 5626 mV, above the clamp, has given 100 %.
C14_WitnessFull ==
  /\ pc = "returned" /\ trace = <<Op("getBatLevel", 200, 100)>> /\ batlevel = 100

\* a step that calls checkBatLevel from the main loop
LoopCheckStep == pc = "battery" /\ OpsIn(trace', "getBatLevel") # {}

\* C15: on the non-fatal path checkBatLevel is called once in setup, before the
\* first play command; after that it is called at the end of every 600th
\* iteration of the main loop counted from the call before, and nowhere else;
\* batcounter is never 0 when it is decremented.
C15_Cadence ==
  /\ [](/\ pc \in {"boot", "fatal"} => cadence.setup = 0
        /\ pc \notin {"boot", "fatal"} => cadence.setup = 1
        /\ ~Started => lastplay = NoPlay
        /\ pc = "battery" => batcounter # 0)
  /\ [][/\ pc = "battery" => (LoopCheckStep <=> cadence.since + 1 = RELOAD)
        /\ LoopCheckStep => cadence'.since = 0
        /\ (trace' # trace /\ OpsIn(trace', "getBatLevel") # {}) =>
             pc \in {"boot", "battery", "lockout"}
        /\ StartUpStep => OpsIn(trace', "getBatLevel") = {} /\ lastplay' # NoPlay]_vars

\* C15 witness: the first check of the main loop has just run, 600 iterations
\* after the one of setup, and has reloaded the counter.
C15_Witness ==
  /\ pc = "sleep" /\ env.period = RELOAD
  /\ cadence = [setup |-> 1, since |-> 0]
  /\ OpsIn(trace, "getBatLevel") # {} /\ batcounter = RELOAD

\* C16: a battery lockout loses no state: from the call of checkBatLevel to its
\* return, through every round of the lockout, folder, file, volume, the pause
\* flag, foldercounts, filecounts, the tracked potentiometer value and the
\* EEPROM stay as they are.
C16_LockoutKeepsState ==
  [][(CheckStep \/ pc = "lockout") =>
       UNCHANGED <<folder, file, volume, pause, foldercounts, filecounts, lastpoti,
                   eeprom>>]_vars

\* C16 witness: a lockout entered in the main loop while paused at file 2 of
\* folder 2, the volume 30, has ended with all of that in place.
C16_Witness ==
  /\ pc = "sleep" /\ contrast = BRIGHT
  /\ Len(trace) = 2 /\ trace[1].op = "getBatLevel" /\ trace[2].op = "getBatLevel"
  /\ pause /\ folder = 2 /\ file = 2 /\ volume = 30 /\ lastpoti = ADCMAX
  /\ foldercounts = 2 /\ filecounts = 2
  /\ eeprom = [a \in 0 .. 2 |-> IF a = 0 THEN SENTINEL ELSE 2]

\* C16 second witness: a round of the lockout has slept, the session playing
\* file 2 of folder 2.
C16_WitnessRound ==
  /\ pc = "lockout" /\ ret = "sleep" /\ ReturnedFromSleep
  /\ ~pause /\ folder = 2 /\ file = 2 /\ eeprom[1] = 2 /\ eeprom[2] = 2

\* what the program sends the decoder
DecoderCommands ==
  {"begin", "dfSleep", "volume", "readFolderCounts", "readFileCounts", "playFolder",
   "pause", "start"}
DecoderOps(t) == {i \in 1 .. Len(t) : t[i].op \in DecoderCommands}

\* the second of two calls in succession leaves the session, the counts and the
\* EEPROM as the first left them and plays the same (folder, file) once more
SameAgain ==
  /\ UNCHANGED <<folder, file, pause, volume, foldercounts, filecounts, eeprom, frame>>
  /\ PlaysOnce(trace', folder, file)

\* C17 as claimed: startFolderPlay called twice in succession, for all folder,
\* file, foldercounts and filecounts: the second call leaves the persisted pair
\* and the session as the first left them and sends the decoder nothing but
\* one play command for the same (folder, file).
C17_Idempotent ==
  [][pc = "second" => (SameAgain /\ Cardinality(DecoderOps(trace')) = 1)]_vars

\* C17 amended: the same, but with foldercounts = 0 and folder >= 1 the second
\* call first asks the decoder again for the file count of folder 1.
C17_IdempotentButQuery ==
  [][pc = "second" =>
       /\ SameAgain
       /\ IF folder <= foldercounts
            THEN Cardinality(DecoderOps(trace')) = 1
            ELSE /\ foldercounts = 0 /\ folder = 1
                 /\ Cardinality(DecoderOps(trace')) = 2
                 /\ trace'[1] = Op("readFileCounts", 1, filecounts)]_vars

\* C17 witness: called with folder 3 of 2 and file 3, the first call went to
\* (1, 1); the second call has played (1, 1) again, the EEPROM holding (1, 1).
C17_Witness ==
  /\ pc = "twice" /\ foldercounts = 2
  /\ entry = [called |-> TRUE, folder |-> 1, file |-> 1, foldercounts |-> 2, filecounts |-> 1]
  /\ folder = 1 /\ file = 1 /\ ~pause
  /\ PlaysOnce(trace, 1, 1) /\ Cardinality(DecoderOps(trace)) = 1
  /\ eeprom[1] = 1 /\ eeprom[2] = 1

\* C18: a held button blocks all other processing: from the sample below idle
\* that starts the release-wait to the first sample back at idle nothing but
\* the rail is sampled: no track-finished event is consumed, the volume and the
\* tracked value stay, the battery counter is not decremented, no battery check
\* runs, no sleep tick is taken; a track-finished event is consumed by the
\* decoder poll alone, so one pending during the hold waits for a later
\* iteration.
C18_HoldBlocks ==
  [][/\ pc = "release" =>
          /\ pc' \in {"release", "battery"}
          /\ inbox = "PlayFinished" => inbox' = "PlayFinished"
          /\ UNCHANGED <<volume, lastpoti, batcounter, batlevel, cadence, folder, file,
                         filecounts, foldercounts, pause, eeprom, frame, contrast>>
          /\ trace' = trace \/ (Len(trace') = 1 /\ trace'[1].op = "getAnalog")
     /\ (pc = "buttons" /\ pc' = "release") =>
          /\ UNCHANGED <<inbox, volume, lastpoti, batcounter, batlevel, cadence>>
          /\ OpNames(trace') \cap {"sleep", "getBatLevel", "denoiseAnalog", "volume"} = {}
     /\ (inbox = "PlayFinished" /\ inbox' # "PlayFinished") => pc = "poll"]_vars

\* C18 witness: a button is held, the rail sampled below idle once more, while
\* a track-finished event waits on the serial line.
C18_Witness ==
  /\ pc = "release" /\ run.open /\ inbox = "PlayFinished"
  /\ trace = <<Op("getAnalog", 900, 202)>>

\* the battery check of the main loop has just run
CheckedInLoop == pc = "sleep" /\ cadence.since = 0

\* the decoder poll has just handled a finished track
HandledFinished == pc = "volume" /\ entry.called /\ inbox = "none"

\* C19: no starvation: with every conversion and watchdog tick completing,
\* every button released and every lockout ended in the end, every iteration of
\* the main loop terminates: each of its steps leads to the next and the sleep
\* tick to the next decoder poll, so poll, volume check, button check and
\* battery check happen again and again, and a pending track-finished event is
\* handled in the end.
C19_NoStarvation ==
  /\ (pc = "poll") ~> (pc = "volume")
  /\ (pc = "volume") ~> (pc = "buttons")
  /\ (pc = "buttons") ~> (pc = "battery")
  /\ (pc = "battery") ~> (pc = "sleep")
  /\ (pc = "sleep") ~> (pc = "poll")
  /\ Started ~> CheckedInLoop
  /\ (inbox = "PlayFinished") ~> HandledFinished

\* C19 witness: a track-finished event that arrived while a button was held has
\* been handled by the poll of the next iteration: the next file plays.
C19_Witness ==
  /\ HandledFinished /\ PlaysOnce(trace, 1, 2) /\ file = 2
  /\ cadence.since > 0

\* C20: on return from a battery lockout the stored battery level has
\* recovered: the batlevel that checkBatLevel stores and shows is >= 10, so the
\* main loop never runs with a stored level of 0.
C20_RecoveredOnReturn ==
  /\ [][(pc = "lockout" /\ pc' # "lockout") =>
          /\ batlevel' >= RECOVERED
          /\ frame'.kind = "status" /\ frame'.batlevel >= RECOVERED]_vars
  /\ []((Started /\ pc # "lockout") => batlevel # 0)

\* C21: once all samples of the potentiometer lie in one band at most 8 wide,
\* whatever the tracked value then is, the volume changes at most once and at
\* most one volume command is sent to the decoder.
C21_NoChatter == steady.on => steady.changes <= 1 /\ steady.commands <= 1

\* the knob at rest, the tracked value in the band, the one change and the one
\* command spent, the loop gone round again since
C21_Witness ==
  /\ steady.on /\ steady.changes = 1 /\ steady.commands = 1
  /\ pc = "buttons" /\ lastpoti \in env.poti /\ OpsIn(trace, "volume") = {}
  /\ trace[1].a # lastpoti

\* the knob at rest where line 171 wraps: the tracked value follows the samples
\* and the volume stays
C21_WitnessWrap ==
  /\ steady.on /\ steady.changes = 0 /\ lastvolume.sent
  /\ pc = "buttons" /\ lastpoti < HYST /\ lastpoti = trace[1].a /\ lastpoti # 0

\* the step of the main loop that reads the potentiometer
VolumeLoopStep == pc = "volume" /\ pc' = "buttons"

\* C22: after the volume step of every iteration volume = floor(tracked value /
\* 34) and 0 <= volume <= 30; the volume last commanded to the decoder is always
\* the session volume; an iteration sends a volume command only in its volume
\* step and only when the level computed there differs from the volume so far.
C22_VolumeInSync ==
  /\ [](lastvolume.sent => lastvolume.volume = volume)
  /\ [][VolumeLoopStep => volume' = lastpoti' \div VOLDIV /\ volume' \in 0 .. 30]_vars
  /\ [][(Started /\ OpsIn(trace', "volume") # {}) =>
          /\ VolumeLoopStep
          /\ Cardinality(OpsIn(trace', "volume")) = 1
          /\ lastpoti' \div VOLDIV # volume]_vars

\* the knob turned up to the end: the volume step has set and commanded 30
C22_Witness ==
  /\ pc = "buttons" /\ lastpoti = ADCMAX /\ volume = 30
  /\ trace = <<Op("denoiseAnalog", ADCMAX, 0), Op("volume", 30, 0)>>
  /\ lastvolume = [sent |-> TRUE, volume |-> 30]

\* the knob at rest: a volume step that sends nothing, the decoder in step
C22_WitnessQuiet ==
  /\ pc = "buttons" /\ OpsIn(trace, "volume") = {} /\ volume = 0
  /\ lastvolume = [sent |-> TRUE, volume |-> 0]

\* the status screen on the display shows the values the globals hold now; the
\* volume has its place on the screen only while the player is not paused
Fresh ==
  /\ frame.kind = "status"
  /\ frame.folder = folder /\ frame.foldercounts = foldercounts
  /\ frame.file = file /\ frame.filecounts = filecounts
  /\ frame.batlevel = batlevel /\ frame.pause = pause
  /\ ~pause => frame.volume = volume

\* a step changes a value that the status screen shows
ShownChanges ==
  <<folder, foldercounts, file, filecounts, batlevel, pause, volume>>' #
    <<folder, foldercounts, file, filecounts, batlevel, pause, volume>>

\* C23: at the sleep tick that ends an iteration of the main loop the frame on
\* the display was rendered from the current folder, foldercounts, file,
\* filecounts, battery level, paused flag and volume; every step of the loop
\* that changes one of them ends with the screen redrawn, the battery check that
\* finds the battery empty when the lockout it enters is left.
C23_DisplayFresh ==
  /\ [](pc = "sleep" => Fresh)
  /\ [][(Started /\ ShownChanges) => (pc' = "lockout" \/ Fresh')]_vars
  /\ [][(pc = "lockout" /\ pc' # "lockout") => Fresh']_vars

\* at the sleep tick of an iteration in which Ok was pressed and the battery
\* checked: the screen shows the pause, the second file and the new level
C23_Witness ==
  /\ pc = "sleep" /\ Fresh /\ OpsIn(trace, "getBatLevel") # {}
  /\ pause /\ frame.pause /\ file = 2 /\ frame.file = 2
  /\ batlevel = 6 /\ frame.batlevel = 6 /\ volume = 30

====
